---- MODULE Spec2Model ----
(***************************************************************************)
(* Model of dvc/commands/studio.py: the `dvc studio login|logout|token`    *)
(* commands.  Python strings are TLA+ strings and Python's None is the     *)
(* marker None.  The scopes string alone is a sequence of characters (a    *)
(* scope word counts as one character), so that split(",") is computed; an *)
(* optional scopes string is <<>> when not given and <<s>> when given.     *)
(***************************************************************************)
EXTENDS Integers, Sequences, FiniteSets, TLC

VARIABLES
    store,      \* conf["studio"] of the "global" config level, as persisted
    pc,         \* position of the login process: "idle" or "waiting"
    args,       \* self.args of the current/last login invocation
    locals,     \* run()'s locals: name, hostname, device_code, token_uri, access_token
    out,        \* what the current/last login wrote through ui, in order
    ret,        \* what the last login's run() returned ("0", "1") or NoRet
    exc,        \* the exception that left the last login's run(), or None
    svc,        \* the current/last login's calls of start_device_login, of
                \* check_token_authorization and of webbrowser.open, with what
                \* start_device_login did and whether the store committed
    cmdRet,     \* return value of the last logout/token run()
    cmdOut,     \* what the last logout/token wrote through ui
    last,       \* history: the name of the action taken last
    pre,        \* history: store and session as they were before the action taken last
    saved,      \* history: hostname and token of the most recent save_config
    sinceSave,  \* history: no login step and no logout since that save_config
    session,    \* history: "in" after a login returned 0, "out" after a logout returned 0
    environ,    \* the DVC_STUDIO_URL variable of the current/last login
    lock,       \* the process inside a transactional edit of the store, or NoHolder
    proc,       \* concurrent processes: command, position, the dict of the edit or read
    lostUpdate  \* history: an edit committed over a store that had changed since it was loaded

vars == <<store, pc, args, locals, out, ret, exc, svc, cmdRet, cmdOut,
          last, pre, saved, sinceSave, session, environ, lock, proc, lostUpdate>>

\* the variables of the commands run one at a time
seqvars == <<pc, args, locals, out, ret, exc, svc, cmdRet, cmdOut,
             last, pre, saved, sinceSave, session, environ>>

\* the variables of the commands run as concurrent processes
concvars == <<lock, proc, lostUpdate>>

-----------------------------------------------------------------------------
(* Values *)

None == "<None>"
NoRet == "-"

\* Python truthiness of a str-or-None value: `if not x`
Truthy(x) == x # None /\ x # ""

\* Python `a or b` on str-or-None values
PyOr(a, b) == IF Truthy(a) THEN a ELSE b

DEFAULT_SCOPES ==
    <<"live", ",", "dvc_experiment", ",", "view_url", ",", "dql", ",", "download_model">>

STUDIO_URL == "https://studio.iterative.ai"

\* str.split(sep) on a string given as the sequence of its characters: the
\* substrings between separators ("a,b" gives ["a", "b"], "" gives [""]).
RECURSIVE SplitFrom(_, _, _, _)
SplitFrom(s, sep, i, cur) ==
    IF i > Len(s) THEN <<cur>>
    ELSE IF s[i] = sep THEN <<cur>> \o SplitFrom(s, sep, i + 1, <<>>)
    ELSE SplitFrom(s, sep, i + 1, Append(cur, s[i]))

\* a split that hands the whole string on as the only element
Split_unsplit(s, sep) == <<s>>

Split(s, sep) == SplitFrom(s, sep, 1, <<>>)

\* funcy.get_in(conf, ["studio", key]): the value, or None when the key is missing
get_in(conf, key) == IF key \in DOMAIN conf THEN conf[key] ELSE None

\* conf["studio"][key] = value
SetKey(conf, key, value) ==
    [k \in DOMAIN conf \cup {key} |-> IF k = key THEN value ELSE conf[k]]

\* del conf["studio"][key]
DelKey(conf, key) == [k \in DOMAIN conf \ {key} |-> conf[k]]

EmptyConf == [k \in {} |-> ""]

\* ui.write(msg) and ui.error_write(msg)
Write(kind, a, b) == <<"write", kind, a, b>>
ErrorWrite(kind, a, b) == <<"error_write", kind, a, b>>

MsgBrowser(uri) == Write("A web browser has been opened at ... Please continue the login in the web browser.", uri, "")
MsgOpenUrl(uri) == Write("Please open the following url in your browser.", uri, "")
MsgUserCode(code) == Write("And enter the user code below ... to authorize.", code, "")
MsgExpired == Write("failed to authenticate: This 'device_code' has expired.(expired_token)", "", "")
MsgSuccess(name) == Write("Authentication successful. The token will be available as ... in Studio profile.", name, "")
MsgNotLoggedIn == ErrorWrite("Not logged in to Studio.", "", "")
MsgLoggedOut == Write("Logged out from Studio", "", "")
MsgToken(token) == Write(token, "", "")
MsgError(text) == ErrorWrite(text, "", "")

-----------------------------------------------------------------------------
(* Inputs *)

Tokens == {"abc123", "tok2"}

\* what check_token_authorization may return: a token, "" or None
AwaitResults == Tokens \cup {"", None}

\* what gen_random_name may return
RandomNames == {"rand-name-1"}

\* the DVC_STUDIO_URL environment variable: unset or set
EnvHostnames == {None, "https://env.example"}

ResponseKeys == {"verification_uri", "user_code", "device_code", "token_uri"}

FullResponse ==
    [verification_uri |-> "https://studio.example/auth", user_code |-> "ABCD-1234",
     device_code |-> "dev-1", token_uri |-> "https://studio.example/token"]

\* the well formed response and a malformed one, which misses a key
Responses == {FullResponse, [k \in ResponseKeys \ {"token_uri"} |-> FullResponse[k]]}

\* start_device_login returns a response or raises
StartOutcomes ==
    {[kind |-> "return", exc |-> None, text |-> "", response |-> r] : r \in Responses}
    \cup {[kind |-> "raise", exc |-> "ValueError", text |-> "bad request",
           response |-> EmptyConf],
          [kind |-> "raise", exc |-> "RequestException", text |-> "unreachable",
           response |-> EmptyConf]}

\* the command lines: no option given, or --name, --hostname and --scopes given;
\* each with and without --use-device-code
LoginArgs ==
    {[name |-> None, hostname |-> None, scopes |-> <<>>, use_device_code |-> d] :
        d \in BOOLEAN}
    \cup {[name |-> "mytoken", hostname |-> "https://studio.example",
           scopes |-> <<<<"live", ",", "view_url">>>>, use_device_code |-> d] :
        d \in BOOLEAN}

NoArgs == [name |-> None, hostname |-> None, scopes |-> <<>>, use_device_code |-> FALSE]
NoLocals == [name |-> None, hostname |-> None, device_code |-> None,
             token_uri |-> None, access_token |-> None]
NoOutcome == [kind |-> "none", exc |-> None, text |-> "", response |-> EmptyConf]
NoCalls == [start |-> <<>>, await |-> <<>>, open |-> <<>>, opened |-> FALSE,
            outcome |-> NoOutcome, commit |-> "none"]
NoSave == [hostname |-> None, token |-> None]

\* the concurrent processes, and what each of them saves when it logs in
Procs == {"p1", "p2"}
NoHolder == "nobody"
SaveOf(p) == IF p = "p1" THEN [hostname |-> "https://studio.example", token |-> "abc123"]
             ELSE [hostname |-> "https://env.example", token |-> "tok2"]
IdleProc == [cmd |-> "none", at |-> "idle", conf |-> EmptyConf, base |-> EmptyConf,
             ret |-> NoRet]

-----------------------------------------------------------------------------
(* The Scoped Config Store: config.edit("global") and config.read("global") *)

\* the dict that `with self.config.edit("global") as conf` hands out
config_edit(st) == st

\* leaving the with block commits the edited dict also when the block failed
config_commit_always(st, conf, ok) == conf

\* leaving the with block commits the edited dict as a whole, or nothing
config_commit(st, conf, ok) == IF ok THEN conf ELSE st

\* self.config.read("global")
config_read(st) == st

-----------------------------------------------------------------------------
(* CmdStudioLogin *)

\* `self.args.scopes or DEFAULT_SCOPES`
ScopesOr(opt, default) == IF opt = <<>> \/ opt[1] = <<>> THEN default ELSE opt[1]

\* lines 68-83 with the manual instructions printed only under --use-device-code
present_instructions_flag_only(use_device_code, verification_uri, user_code, br) ==
    LET tryBrowser == ~use_device_code
        out1 == IF tryBrowser THEN <<MsgBrowser(verification_uri)>> ELSE <<>>
        url == <<verification_uri, "?code=", user_code>>
        opened == IF tryBrowser THEN br ELSE FALSE
        out2 == IF use_device_code
                THEN out1 \o <<MsgOpenUrl(verification_uri), MsgUserCode(user_code)>>
                ELSE out1
    IN  [out |-> out2, opened |-> opened,
         open |-> IF tryBrowser THEN <<[url |-> url, result |-> br]>> ELSE <<>>]

\* initiate_authorization, lines 68-83: the instructions to the user. `br` is
\* what webbrowser.open returns when it is called.
present_instructions(use_device_code, verification_uri, user_code, br) ==
    LET tryBrowser == ~use_device_code
        out1 == IF tryBrowser THEN <<MsgBrowser(verification_uri)>> ELSE <<>>
        url == <<verification_uri, "?code=", user_code>>
        opened == IF tryBrowser THEN br ELSE FALSE
        out2 == IF ~opened
                THEN out1 \o <<MsgOpenUrl(verification_uri), MsgUserCode(user_code)>>
                ELSE out1
    IN  [out |-> out2, opened |-> opened,
         open |-> IF tryBrowser THEN <<[url |-> url, result |-> br]>> ELSE <<>>]

\* an initiate_authorization that reads device_code and token_uri from the
\* response only after it presented the instructions
initiate_authorization_late_keys(a, name, hostname, so, br) ==
    LET scopes == ScopesOr(a.scopes, DEFAULT_SCOPES)
        call == [client_name |-> "dvc", base_url |-> hostname, token_name |-> name,
                 scopes |-> Split(scopes, ",")]
        failed(e, text) ==
            [exc |-> e, text |-> text, device_code |-> None, token_uri |-> None,
             out |-> <<>>,
             calls |-> [NoCalls EXCEPT !.start = <<call>>, !.outcome = so]]
    IN  IF so.kind = "raise" THEN failed(so.exc, so.text)
        ELSE IF {"verification_uri", "user_code"} \ DOMAIN so.response # {}
        THEN failed("KeyError", "verification_uri")
        ELSE
        LET response == so.response
            p == present_instructions(a.use_device_code, response["verification_uri"],
                                      response["user_code"], br)
            calls == [NoCalls EXCEPT !.start = <<call>>, !.outcome = so,
                         !.open = p.open, !.opened = p.opened]
        IN  IF {"device_code", "token_uri"} \ DOMAIN response # {}
            THEN [exc |-> "KeyError", text |-> "token_uri", device_code |-> None,
                  token_uri |-> None, out |-> p.out, calls |-> calls]
            ELSE [exc |-> None, text |-> "", device_code |-> response["device_code"],
                  token_uri |-> response["token_uri"], out |-> p.out, calls |-> calls]

\* initiate_authorization(name, hostname): `so` is what start_device_login does
initiate_authorization(a, name, hostname, so, br) ==
    LET scopes == ScopesOr(a.scopes, DEFAULT_SCOPES)
        call == [client_name |-> "dvc", base_url |-> hostname, token_name |-> name,
                 scopes |-> Split(scopes, ",")]
        failed(e, text) ==
            [exc |-> e, text |-> text, device_code |-> None, token_uri |-> None,
             out |-> <<>>,
             calls |-> [NoCalls EXCEPT !.start = <<call>>, !.outcome = so]]
    IN  IF so.kind = "raise" THEN failed(so.exc, so.text)
        ELSE IF ResponseKeys \ DOMAIN so.response # {}
        THEN failed("KeyError", CHOOSE k \in ResponseKeys : k \notin DOMAIN so.response)
        ELSE
        LET response == so.response
            p == present_instructions(a.use_device_code, response["verification_uri"],
                                      response["user_code"], br)
        IN  [exc |-> None, text |-> "", device_code |-> response["device_code"],
             token_uri |-> response["token_uri"], out |-> p.out,
             calls |-> [NoCalls EXCEPT !.start = <<call>>, !.outcome = so,
                           !.open = p.open, !.opened = p.opened]]

\* a save_config that stores its two arguments under each other's key
save_config_swapped(conf, hostname, token) ==
    SetKey(SetKey(conf, "token", hostname), "url", token)

\* a save_config that keeps a url that is already stored
save_config_keep_url(conf, hostname, token) ==
    IF "url" \in DOMAIN conf
    THEN SetKey(conf, "token", token)
    ELSE SetKey(SetKey(conf, "token", token), "url", hostname)

\* a save_config that stores the token and forgets the url
save_config_token_only(conf, hostname, token) == SetKey(conf, "token", token)

\* save_config(hostname, token): the two assignments inside the edit
save_config(conf, hostname, token) ==
    SetKey(SetKey(conf, "token", token), "url", hostname)

\* a run() that does not catch the ValueError of initiate_authorization
Login_run_begin_uncaught(a, rnd, env, so, br) ==
    LET name == PyOr(a.name, rnd)
        hostname == PyOr(PyOr(a.hostname, env), STUDIO_URL)
        r == initiate_authorization(a, name, hostname, so, br)
        loc == [name |-> name, hostname |-> hostname, device_code |-> r.device_code,
                token_uri |-> r.token_uri, access_token |-> None]
    IN  IF r.exc # None
        THEN [pc |-> "idle", locals |-> loc, out |-> r.out, ret |-> NoRet,
              exc |-> r.exc, svc |-> r.calls]
        ELSE [pc |-> "waiting", locals |-> loc, out |-> r.out, ret |-> NoRet,
              exc |-> None,
              svc |-> [r.calls EXCEPT !.await =
                          <<[uri |-> r.token_uri, device_code |-> r.device_code]>>]]

\* a run() that gives up with exit code 1 when the browser could not be opened
Login_run_begin_browser_required(a, rnd, env, so, br) ==
    LET name == PyOr(a.name, rnd)
        hostname == PyOr(PyOr(a.hostname, env), STUDIO_URL)
        r == initiate_authorization(a, name, hostname, so, br)
        loc == [name |-> name, hostname |-> hostname, device_code |-> r.device_code,
                token_uri |-> r.token_uri, access_token |-> None]
    IN  IF r.exc = "ValueError"
        THEN [pc |-> "idle", locals |-> loc, out |-> Append(r.out, MsgError(r.text)),
              ret |-> "1", exc |-> None, svc |-> r.calls]
        ELSE IF r.exc # None
        THEN [pc |-> "idle", locals |-> loc, out |-> r.out, ret |-> NoRet,
              exc |-> r.exc, svc |-> r.calls]
        ELSE IF ~a.use_device_code /\ ~r.calls.opened
        THEN [pc |-> "idle", locals |-> loc, out |-> r.out, ret |-> "1",
              exc |-> None, svc |-> r.calls]
        ELSE [pc |-> "waiting", locals |-> loc, out |-> r.out, ret |-> NoRet,
              exc |-> None,
              svc |-> [r.calls EXCEPT !.await =
                          <<[uri |-> r.token_uri, device_code |-> r.device_code]>>]]

\* run(), lines 25-34: from the start up to the call of check_token_authorization.
\* `rnd` is what gen_random_name returns, `env` the DVC_STUDIO_URL variable.
Login_run_begin(a, rnd, env, so, br) ==
    LET name == PyOr(a.name, rnd)
        hostname == PyOr(PyOr(a.hostname, env), STUDIO_URL)
        r == initiate_authorization(a, name, hostname, so, br)
        loc == [name |-> name, hostname |-> hostname, device_code |-> r.device_code,
                token_uri |-> r.token_uri, access_token |-> None]
    IN  IF r.exc = "ValueError"
        THEN [pc |-> "idle", locals |-> loc, out |-> Append(r.out, MsgError(r.text)),
              ret |-> "1", exc |-> None, svc |-> r.calls]
        ELSE IF r.exc # None
        THEN [pc |-> "idle", locals |-> loc, out |-> r.out, ret |-> NoRet,
              exc |-> r.exc, svc |-> r.calls]
        ELSE [pc |-> "waiting", locals |-> loc, out |-> r.out, ret |-> NoRet,
              exc |-> None,
              svc |-> [r.calls EXCEPT !.await =
                          <<[uri |-> r.token_uri, device_code |-> r.device_code]>>]]

\* a run() that saves whatever the wait returned before it tests it
Login_run_end_save_first(st, loc, o, sv, token, ok) ==
    LET conf == save_config(config_edit(st), loc.hostname, token)
    IN  IF ~ok
        THEN [store |-> config_commit(st, conf, FALSE),
              out |-> o, ret |-> NoRet, exc |-> "ConfigWriteError",
              svc |-> [sv EXCEPT !.commit = "failed"]]
        ELSE IF ~Truthy(token)
        THEN [store |-> config_commit(st, conf, TRUE), out |-> Append(o, MsgExpired),
              ret |-> "1", exc |-> None, svc |-> [sv EXCEPT !.commit = "ok"]]
        ELSE [store |-> config_commit(st, conf, TRUE),
              out |-> Append(o, MsgSuccess(loc.name)), ret |-> "0", exc |-> None,
              svc |-> [sv EXCEPT !.commit = "ok"]]

\* a run() that polls the same device code once more before it reports the expiry
Login_run_end_poll_again(st, loc, o, sv, token, ok) ==
    IF ~Truthy(token)
    THEN [store |-> st, out |-> Append(o, MsgExpired), ret |-> "1", exc |-> None,
          svc |-> [sv EXCEPT !.await =
                      Append(@, [uri |-> loc.token_uri, device_code |-> loc.device_code])]]
    ELSE LET conf == save_config(config_edit(st), loc.hostname, token)
         IN  IF ok
             THEN [store |-> config_commit(st, conf, TRUE),
                   out |-> Append(o, MsgSuccess(loc.name)), ret |-> "0", exc |-> None,
                   svc |-> [sv EXCEPT !.commit = "ok"]]
             ELSE [store |-> config_commit(st, conf, FALSE),
                   out |-> o, ret |-> NoRet, exc |-> "ConfigWriteError",
                   svc |-> [sv EXCEPT !.commit = "failed"]]

\* a run() that takes only None, not "", for an expired device code
Login_run_end_none_only(st, loc, o, sv, token, ok) ==
    IF token = None
    THEN [store |-> st, out |-> Append(o, MsgExpired), ret |-> "1", exc |-> None,
          svc |-> sv]
    ELSE LET conf == save_config(config_edit(st), loc.hostname, token)
         IN  IF ok
             THEN [store |-> config_commit(st, conf, TRUE),
                   out |-> Append(o, MsgSuccess(loc.name)), ret |-> "0", exc |-> None,
                   svc |-> [sv EXCEPT !.commit = "ok"]]
             ELSE [store |-> config_commit(st, conf, FALSE),
                   out |-> o, ret |-> NoRet, exc |-> "ConfigWriteError",
                   svc |-> [sv EXCEPT !.commit = "failed"]]

\* run(), lines 34-46: check_token_authorization returned `token`; `ok` is whether
\* the store commits the edit of save_config.
Login_run_end(st, loc, o, sv, token, ok) ==
    IF ~Truthy(token)
    THEN [store |-> st, out |-> Append(o, MsgExpired), ret |-> "1", exc |-> None,
          svc |-> sv]
    ELSE LET conf == save_config(config_edit(st), loc.hostname, token)
         IN  IF ok
             THEN [store |-> config_commit(st, conf, TRUE),
                   out |-> Append(o, MsgSuccess(loc.name)), ret |-> "0", exc |-> None,
                   svc |-> [sv EXCEPT !.commit = "ok"]]
             ELSE [store |-> config_commit(st, conf, FALSE),
                   out |-> o, ret |-> NoRet, exc |-> "ConfigWriteError",
                   svc |-> [sv EXCEPT !.commit = "failed"]]

-----------------------------------------------------------------------------
(* CmdStudioLogout and CmdStudioToken *)

\* a logout that does not test for a stored token
CmdStudioLogout_run_unchecked(conf) ==
    [conf |-> DelKey(conf, "token"), out |-> <<MsgLoggedOut>>, ret |-> "0"]

\* a logout that removes the url together with the token
CmdStudioLogout_run_clear_all(conf) ==
    IF ~Truthy(get_in(conf, "token"))
    THEN [conf |-> conf, out |-> <<MsgNotLoggedIn>>, ret |-> "1"]
    ELSE [conf |-> DelKey(DelKey(conf, "token"), "url"), out |-> <<MsgLoggedOut>>,
          ret |-> "0"]

\* CmdStudioLogout.run() on the dict of the edit
CmdStudioLogout_run(conf) ==
    IF ~Truthy(get_in(conf, "token"))
    THEN [conf |-> conf, out |-> <<MsgNotLoggedIn>>, ret |-> "1"]
    ELSE [conf |-> DelKey(conf, "token"), out |-> <<MsgLoggedOut>>, ret |-> "0"]

\* a token command that takes the stored url as the sign of being logged in
CmdStudioToken_run_by_url(conf) ==
    LET token == get_in(conf, "token")
    IN  IF ~Truthy(get_in(conf, "url"))
        THEN [out |-> <<MsgNotLoggedIn>>, ret |-> "1"]
        ELSE [out |-> <<MsgToken(token)>>, ret |-> "0"]

\* CmdStudioToken.run() on the dict read
CmdStudioToken_run(conf) ==
    LET token == get_in(conf, "token")
    IN  IF ~Truthy(token)
        THEN [out |-> <<MsgNotLoggedIn>>, ret |-> "1"]
        ELSE [out |-> <<MsgToken(token)>>, ret |-> "0"]

-----------------------------------------------------------------------------
(* The state machine *)

Init ==
    /\ store = EmptyConf
    /\ pc = "idle"
    /\ args = NoArgs
    /\ locals = NoLocals
    /\ out = <<>>
    /\ ret = NoRet
    /\ exc = None
    /\ svc = NoCalls
    /\ cmdRet = NoRet
    /\ cmdOut = <<>>
    /\ last = "none"
    /\ pre = [store |-> EmptyConf, session |-> "none"]
    /\ saved = NoSave
    /\ sinceSave = FALSE
    /\ session = "none"
    /\ environ = None
    /\ lock = NoHolder
    /\ proc = [p \in Procs |-> IdleProc]
    /\ lostUpdate = FALSE

\* `dvc studio login` is started and runs until it blocks in the wait, or ends
LoginBegin ==
    /\ pc = "idle"
    /\ \E a \in LoginArgs, rnd \in RandomNames, env \in EnvHostnames,
          so \in StartOutcomes, br \in BOOLEAN :
          LET r == Login_run_begin(a, rnd, env, so, br)
          IN  /\ args' = a
              /\ pc' = r.pc
              /\ locals' = r.locals
              /\ out' = r.out
              /\ ret' = r.ret
              /\ exc' = r.exc
              /\ svc' = r.svc
              /\ environ' = env
    /\ last' = "LoginBegin"
    /\ pre' = [store |-> store, session |-> session]
    /\ sinceSave' = FALSE
    /\ UNCHANGED <<store, cmdRet, cmdOut, saved, session>>
    /\ UNCHANGED concvars

\* check_token_authorization returns and run() goes on to its end
LoginEnd ==
    /\ pc = "waiting"
    /\ \E token \in AwaitResults, ok \in BOOLEAN :
          LET r == Login_run_end(store, locals, out, svc, token, ok)
          IN  /\ store' = r.store
              /\ out' = r.out
              /\ ret' = r.ret
              /\ exc' = r.exc
              /\ svc' = r.svc
              /\ locals' = [locals EXCEPT !.access_token = token]
              /\ saved' = IF r.ret = "0"
                          THEN [hostname |-> locals.hostname, token |-> token]
                          ELSE saved
              /\ sinceSave' = (r.ret = "0")
              /\ session' = IF r.ret = "0" THEN "in" ELSE session
    /\ pc' = "idle"
    /\ last' = "LoginEnd"
    /\ pre' = [store |-> store, session |-> session]
    /\ UNCHANGED <<args, cmdRet, cmdOut, environ>>
    /\ UNCHANGED concvars

\* check_token_authorization raises (a transport error): it leaves run() uncaught
LoginWaitRaises ==
    /\ pc = "waiting"
    /\ pc' = "idle"
    /\ exc' = "RequestException"
    /\ last' = "LoginWaitRaises"
    /\ pre' = [store |-> store, session |-> session]
    /\ sinceSave' = FALSE
    /\ UNCHANGED <<store, args, locals, out, ret, svc, cmdRet, cmdOut, saved, session, environ>>
    /\ UNCHANGED concvars

\* the login process is terminated from outside (a signal) while it waits
LoginTerminate ==
    /\ pc = "waiting"
    /\ pc' = "idle"
    /\ last' = "LoginTerminate"
    /\ pre' = [store |-> store, session |-> session]
    /\ sinceSave' = FALSE
    /\ UNCHANGED <<store, args, locals, out, ret, exc, svc, cmdRet, cmdOut, saved, session, environ>>
    /\ UNCHANGED concvars

\* `dvc studio logout`
Logout ==
    /\ LET r == CmdStudioLogout_run(config_edit(store))
       IN  /\ store' = config_commit(store, r.conf, TRUE)
           /\ cmdRet' = r.ret
           /\ cmdOut' = r.out
           /\ session' = IF r.ret = "0" THEN "out" ELSE session
    /\ last' = "Logout"
    /\ pre' = [store |-> store, session |-> session]
    /\ sinceSave' = FALSE
    /\ UNCHANGED <<pc, args, locals, out, ret, exc, svc, saved, environ>>
    /\ UNCHANGED concvars

\* a `dvc studio token` that removes the token it printed
Token_consuming ==
    /\ LET r == CmdStudioToken_run(config_read(store))
       IN  /\ cmdRet' = r.ret
           /\ cmdOut' = r.out
    /\ store' = DelKey(store, "token")
    /\ last' = "Token"
    /\ pre' = [store |-> store, session |-> session]
    /\ UNCHANGED <<pc, args, locals, out, ret, exc, svc, saved, sinceSave, session, environ>>
    /\ UNCHANGED concvars

\* `dvc studio token`
Token ==
    /\ LET r == CmdStudioToken_run(config_read(store))
       IN  /\ cmdRet' = r.ret
           /\ cmdOut' = r.out
    /\ last' = "Token"
    /\ pre' = [store |-> store, session |-> session]
    /\ UNCHANGED <<store, pc, args, locals, out, ret, exc, svc, saved, sinceSave, session, environ>>
    /\ UNCHANGED concvars

Next ==
    \/ LoginBegin
    \/ LoginEnd
    \/ LoginWaitRaises
    \/ LoginTerminate
    \/ Logout
    \/ Token

Spec == Init /\ [][Next]_vars

-----------------------------------------------------------------------------
(* The commands as concurrent processes on the store.  A login is taken from *)
(* the point where it holds its token and calls save_config.                 *)

\* the edit is entered without regard to the lock
edit_may_enter_unlocked(holder, p) == TRUE

\* config.edit serializes the edits: an edit is entered when no process is in one
edit_may_enter(holder, p) == holder = NoHolder

\* the positions inside the with block of an edit
InEdit == {"line88", "line89", "line97", "exit"}

\* `with self.config.edit("global") as conf:` of save_config or of logout
EditEnter(p) ==
    /\ proc[p].at = "idle"
    /\ edit_may_enter(lock, p)
    /\ \E cmd \in {"login", "logout"} :
          proc' = [proc EXCEPT ![p] =
                      [cmd |-> cmd, at |-> IF cmd = "login" THEN "line88" ELSE "line97",
                       conf |-> config_edit(store), base |-> store, ret |-> NoRet]]
    /\ lock' = p
    /\ UNCHANGED <<store, lostUpdate>>
    /\ UNCHANGED seqvars

\* conf["studio"]["token"] = token
SaveWriteToken(p) ==
    /\ proc[p].at = "line88"
    /\ proc' = [proc EXCEPT ![p].conf = SetKey(@, "token", SaveOf(p).token),
                            ![p].at = "line89"]
    /\ UNCHANGED <<store, lock, lostUpdate>>
    /\ UNCHANGED seqvars

\* conf["studio"]["url"] = hostname
SaveWriteUrl(p) ==
    /\ proc[p].at = "line89"
    /\ proc' = [proc EXCEPT ![p].conf = SetKey(@, "url", SaveOf(p).hostname),
                            ![p].ret = "0", ![p].at = "exit"]
    /\ UNCHANGED <<store, lock, lostUpdate>>
    /\ UNCHANGED seqvars

\* the body of logout's with block
LogoutBody(p) ==
    /\ proc[p].at = "line97"
    /\ LET r == CmdStudioLogout_run(proc[p].conf)
       IN  proc' = [proc EXCEPT ![p].conf = r.conf, ![p].ret = r.ret, ![p].at = "exit"]
    /\ UNCHANGED <<store, lock, lostUpdate>>
    /\ UNCHANGED seqvars

\* the with block is left: the edit commits its dict and lets the next edit in
EditCommit(p) ==
    /\ proc[p].at = "exit"
    /\ store' = config_commit(store, proc[p].conf, TRUE)
    /\ lostUpdate' = (lostUpdate \/ store # proc[p].base)
    /\ lock' = IF lock = p THEN NoHolder ELSE lock
    /\ proc' = [proc EXCEPT ![p].at = "idle"]
    /\ UNCHANGED seqvars

\* the process fails or is killed inside the with block: nothing is committed
EditCrash(p) ==
    /\ proc[p].at \in InEdit
    /\ store' = config_commit(store, proc[p].conf, FALSE)
    /\ lock' = IF lock = p THEN NoHolder ELSE lock
    /\ proc' = [proc EXCEPT ![p].at = "idle", ![p].ret = "crashed"]
    /\ UNCHANGED lostUpdate
    /\ UNCHANGED seqvars

\* `dvc studio token`: one read of the store
TokenRead(p) ==
    /\ proc[p].at = "idle"
    /\ LET conf == config_read(store)
           r == CmdStudioToken_run(conf)
       IN  proc' = [proc EXCEPT ![p] =
                       [cmd |-> "token", at |-> "idle", conf |-> conf, base |-> conf,
                        ret |-> r.ret]]
    /\ UNCHANGED <<store, lock, lostUpdate>>
    /\ UNCHANGED seqvars

NextConc ==
    \E p \in Procs :
        \/ EditEnter(p)
        \/ SaveWriteToken(p)
        \/ SaveWriteUrl(p)
        \/ LogoutBody(p)
        \/ EditCommit(p)
        \/ EditCrash(p)
        \/ TokenRead(p)

SpecConc == Init /\ [][NextConc]_vars

-----------------------------------------------------------------------------
(* Properties *)

Range(f) == {f[i] : i \in DOMAIN f}

LoginActions == {"LoginBegin", "LoginEnd", "LoginWaitRaises", "LoginTerminate"}

\* start_device_login returned a response with all four keys
StartOk == svc.outcome.kind = "return" /\ ResponseKeys \subseteq DOMAIN svc.outcome.response

\* start_device_login returned a response that misses a key
StartMalformed ==
    svc.outcome.kind = "return" /\ ~(ResponseKeys \subseteq DOMAIN svc.outcome.response)

\* start_device_login raised
StartRaised == svc.outcome.kind = "raise"

\* the wait of the login that just ended returned an empty or absent token
WaitEmpty == last = "LoginEnd" /\ ~Truthy(locals.access_token)

\* C1: a Token command that follows a save(h, t), with no login step and no
\* logout in between, prints exactly t and returns 0.
C1_SaveThenToken ==
    (last = "Token" /\ sinceSave) =>
        /\ cmdRet = "0"
        /\ cmdOut = <<MsgToken(saved.token)>>
        /\ Truthy(saved.token)

C1_Witness ==
    /\ last = "Token"
    /\ sinceSave
    /\ saved = [hostname |-> "https://env.example", token |-> "tok2"]
    /\ cmdOut = <<MsgToken("tok2")>>

\* the last thing the login wrote reports a failure
FailureMessageShown ==
    /\ out # <<>>
    /\ (out[Len(out)] = MsgExpired \/ out[Len(out)][1] = "error_write")

\* the login that just ended committed its credential to the store
Committed ==
    /\ last = "LoginEnd"
    /\ svc.commit = "ok"
    /\ get_in(store, "token") = locals.access_token
    /\ get_in(store, "url") = locals.hostname

\* the failures of a login that C2 lists
LoginFailure ==
    \/ last = "LoginBegin" /\ (StartRaised \/ StartMalformed)
    \/ WaitEmpty
    \/ last = "LoginEnd" /\ svc.commit = "failed"

C3_NoWriteBeforeToken ==
    last \in LoginActions =>
        /\ store # pre.store =>
              (last = "LoginEnd" /\ Truthy(locals.access_token) /\ Len(svc.await) = 1)
        /\ (\/ last = "LoginBegin" /\ pc = "idle"
            \/ WaitEmpty
            \/ last = "LoginTerminate") => store = pre.store

C3_Witness ==
    /\ WaitEmpty
    /\ pre.store = [token |-> "abc123", url |-> STUDIO_URL]
    /\ store = pre.store

\* C4: a logout that finds no studio.token returns 1, writes "Not logged in to
\* Studio." and leaves the store as it was.
C4_LogoutWhenAbsent ==
    (last = "Logout" /\ "token" \notin DOMAIN pre.store) =>
        /\ cmdRet = "1"
        /\ cmdOut = <<MsgNotLoggedIn>>
        /\ store = pre.store

C4_Witness ==
    /\ last = "Logout"
    /\ pre.store = [url |-> "https://studio.example"]
    /\ cmdRet = "1"

\* C5: a logout that finds the token of a prior save(h, t) deletes studio.token
\* only: studio.token is absent afterwards and studio.url is still h.
C5_LogoutKeepsUrl ==
    (last = "Logout" /\ Truthy(get_in(pre.store, "token"))) =>
        /\ pre.store = [token |-> saved.token, url |-> saved.hostname]
        /\ "token" \notin DOMAIN store
        /\ "url" \in DOMAIN store
        /\ store["url"] = saved.hostname

C5_Witness ==
    /\ last = "Logout"
    /\ pre.store = [token |-> "tok2", url |-> "https://studio.example"]
    /\ store = [url |-> "https://studio.example"]

\* C6: a logout returns 0 exactly when a token was stored before it; after a
\* logout that returned 0 every token and logout command returns 1 with the
\* not-logged-in message until a login returns 0; after a login that returned
\* 0 the token command returns 0 until a logout returns 0.
C6_ExitCodesFollowSession ==
    /\ last = "Logout" =>
          /\ cmdRet \in {"0", "1"}
          /\ (cmdRet = "0") <=> Truthy(get_in(pre.store, "token"))
    /\ (last \in {"Logout", "Token"} /\ pre.session = "out") =>
          (cmdRet = "1" /\ cmdOut = <<MsgNotLoggedIn>>)
    /\ (last = "Token" /\ pre.session = "in") => cmdRet = "0"

C6_Witness ==
    /\ last = "Token"
    /\ pre.session = "out"
    /\ "url" \in DOMAIN store
    /\ cmdRet = "1"

\* C7: when the wait returns an empty or absent token the login returns 1 with
\* the expired message and is over; no login calls start_device_login or
\* check_token_authorization more than once.
C7_ExpiredIsTerminal ==
    /\ WaitEmpty =>
          (ret = "1" /\ out[Len(out)] = MsgExpired /\ pc = "idle")
    /\ Len(svc.start) <= 1
    /\ Len(svc.await) <= 1

C7_Witness ==
    /\ WaitEmpty
    /\ locals.access_token = None
    /\ Len(svc.start) = 1
    /\ Len(svc.await) = 1

\* webbrowser.open was called and returned False
LaunchFailed == svc.open # <<>> /\ ~svc.open[1].result

BrowserMessageShown == \E m \in Range(out) : m = MsgBrowser(m[3])

\* C8 as stated: without --use-device-code the message that tells the user to
\* continue in the web browser is written only when the browser was launched
\* and the launch succeeded.
C8_BrowserMessageOnlyOnSuccess ==
    (~args.use_device_code /\ BrowserMessageShown) => (svc.open # <<>> /\ svc.opened)

ManualInstructions ==
    {MsgOpenUrl(FullResponse["verification_uri"]), MsgUserCode(FullResponse["user_code"])}

\* C9: after a successful initiation the manual instructions (verification uri
\* and user code) are written exactly when --use-device-code is given or the
\* browser launch failed; with --use-device-code webbrowser.open is not called.
C9_ManualInstructions ==
    StartOk =>
        /\ (ManualInstructions \subseteq Range(out)) <=>
               (args.use_device_code \/ LaunchFailed)
        /\ (ManualInstructions \cap Range(out) = {}) <=>
               ~(args.use_device_code \/ LaunchFailed)
        /\ args.use_device_code => svc.open = <<>>

C9_Witness ==
    /\ StartOk
    /\ ~args.use_device_code
    /\ LaunchFailed
    /\ ManualInstructions \subseteq Range(out)

\* C10: after a successful initiation the login reaches the call of
\* check_token_authorization, with and without --use-device-code and whatever
\* webbrowser.open returned.
C10_PresenterNeverHalts ==
    /\ (last = "LoginBegin" /\ StartOk) =>
          (pc = "waiting" /\ ret = NoRet /\ exc = None)
    /\ StartOk => Len(svc.await) = 1

C10_Witness ==
    /\ last = "LoginBegin"
    /\ StartOk
    /\ LaunchFailed
    /\ pc = "waiting"

\* C13: the token command leaves the store as it was, whether it returns 0 or 1.
C13_TokenReadOnly ==
    last = "Token" => (store = pre.store /\ cmdRet \in {"0", "1"})

C13_Witness ==
    /\ last = "Token"
    /\ cmdRet = "0"
    /\ pre.store = [token |-> "abc123", url |-> STUDIO_URL]

\* C14: the store holds one credential at most and changes only when a login
\* overwrites it or a logout deletes it: after a login that returned 0 the
\* store is exactly the token and the hostname of that login, whatever it held
\* before, and the stored token is the same after a token command, a login
\* that did not return 0 and a logout that returned 1.
C14_OneCredential ==
    /\ DOMAIN store \subseteq {"token", "url"}
    /\ (last = "LoginEnd" /\ ret = "0") =>
          store = [token |-> locals.access_token, url |-> locals.hostname]
    /\ (\/ last = "Token"
        \/ last \in LoginActions /\ ret # "0"
        \/ last = "Logout" /\ cmdRet = "1") => store = pre.store
    /\ store # pre.store =>
          (last = "LoginEnd" /\ ret = "0") \/ (last = "Logout" /\ cmdRet = "0")

C14_Witness ==
    /\ last = "LoginEnd"
    /\ ret = "0"
    /\ pre.store = [token |-> "abc123", url |-> "https://studio.example"]
    /\ store = [token |-> "tok2", url |-> "https://env.example"]

\* C15: when the initiation fails (start_device_login raises, or its response
\* misses a key) the login called start_device_login once and does nothing
\* more: no instructions, no browser, no wait, no write to the store.
C15_InitiationFailureStops ==
    (StartRaised \/ StartMalformed) =>
        /\ Len(svc.start) = 1
        /\ svc.open = <<>>
        /\ svc.await = <<>>
        /\ svc.commit = "none"
        /\ ~BrowserMessageShown
        /\ ManualInstructions \cap Range(out) = {}
        /\ last = "LoginBegin" => (pc = "idle" /\ store = pre.store)

C15_Witness ==
    /\ last = "LoginBegin"
    /\ StartMalformed
    /\ ~args.use_device_code
    /\ store = [token |-> "abc123", url |-> STUDIO_URL]

\* C16: the hostname of a login is --hostname when given, else DVC_STUDIO_URL
\* when set, else the default; the scopes are the --scopes string split at the
\* commas in order ("live,view_url" gives ["live", "view_url"]), else the
\* default scopes; start_device_login is called with these.
C16_ResolvedArguments ==
    svc.start # <<>> =>
        LET call == svc.start[1]
        IN  /\ call.base_url = (IF args.hostname # None THEN args.hostname
                                ELSE IF environ # None THEN environ
                                ELSE "https://studio.iterative.ai")
            /\ locals.hostname = call.base_url
            /\ args.scopes = <<<<"live", ",", "view_url">>>> =>
                  call.scopes = <<<<"live">>, <<"view_url">>>>
            /\ args.scopes = <<>> =>
                  call.scopes = <<<<"live">>, <<"dvc_experiment">>, <<"view_url">>,
                                  <<"dql">>, <<"download_model">>>>

C16_Witness ==
    /\ svc.start # <<>>
    /\ args.hostname = "https://studio.example"
    /\ environ = "https://env.example"
    /\ svc.start[1].base_url = "https://studio.example"
    /\ svc.start[1].scopes = <<<<"live">>, <<"view_url">>>>

\* C17: from the empty store a stored studio.token is never empty, and the
\* token and logout commands report "not logged in" exactly when the
\* studio.token key is absent.
C17_AbsenceIsNotLoggedIn ==
    /\ "token" \in DOMAIN store => Truthy(store["token"])
    /\ last \in {"Token", "Logout"} =>
          ((cmdRet = "1" /\ cmdOut = <<MsgNotLoggedIn>>) <=>
               "token" \notin DOMAIN pre.store)

C17_Witness ==
    /\ last = "Token"
    /\ store = [url |-> STUDIO_URL]
    /\ cmdRet = "1"

\* C18: from the empty store, whenever studio.token is present studio.url is
\* present too and is the hostname that the most recent login that returned 0
\* passed to start_device_login as base_url.
C18_UrlOfLastLogin ==
    /\ "token" \in DOMAIN store =>
          ("url" \in DOMAIN store /\ store["url"] = saved.hostname)
    /\ (last = "LoginEnd" /\ ret = "0") =>
          (Len(svc.start) = 1 /\ saved.hostname = svc.start[1].base_url)

C18_Witness ==
    /\ last = "Token"
    /\ "token" \in DOMAIN store
    /\ store["url"] = "https://env.example"
    /\ saved.hostname = "https://env.example"

\* a dict of the store that holds no token of one save with the url of another
WholeSave(c) ==
    "token" \in DOMAIN c =>
        \E q \in Procs : /\ c["token"] = SaveOf(q).token
                         /\ get_in(c, "url") = SaveOf(q).hostname

\* C11: the edits of concurrent login, logout and token processes are
\* serialized: one process at most is inside an edit, no read and no edit
\* loads a new studio.token together with the previous studio.url, and no
\* edit commits over a store that changed after the edit loaded it.
C11_EditsSerialized ==
    /\ Cardinality({p \in Procs : proc[p].at \in InEdit}) <= 1
    /\ \A p \in Procs : WholeSave(proc[p].base)
    /\ WholeSave(store)
    /\ ~lostUpdate

C11_Witness ==
    /\ lock = "p1"
    /\ proc["p1"].at = "line89"
    /\ proc["p1"].conf = [token |-> "abc123", url |-> "https://env.example"]
    /\ proc["p2"].cmd = "token"
    /\ proc["p2"].ret = "0"
    /\ proc["p2"].base = [token |-> "tok2", url |-> "https://env.example"]

\* C12: a step taken while a save is inside its edit, a failure or a kill
\* between the two writes included, leaves the persisted store as it was or
\* with both studio.token and studio.url of this save.
C12_SaveAtomic ==
    [][\A p \in Procs :
          (proc[p].cmd = "login" /\ proc[p].at \in InEdit) =>
              \/ store' = store
              \/ store' = [token |-> SaveOf(p).token, url |-> SaveOf(p).hostname]]_vars

C12_Witness ==
    /\ proc["p1"].cmd = "login"
    /\ proc["p1"].ret = "crashed"
    /\ proc["p1"].conf = [token |-> "abc123", url |-> "https://env.example"]
    /\ store = [token |-> "tok2", url |-> "https://env.example"]
    /\ store = proc["p1"].base

====
